---- MODULE Spec2Model ----
(***************************************************************************)
(* Receipt scanner: the field extraction pipeline of app/ocr.py, the scan  *)
(* and upload handlers of app/main.py that assemble and store a record,    *)
(* the CSV mirror of app/models.py, and the low-battery shutdown loop of   *)
(* app/battery_monitor.py.                                                 *)
(*                                                                         *)
(* Text is a sequence of one-character strings, so that the regular        *)
(* expressions of ocr.py are matched character by character.  An optional  *)
(* value (Python's None or a value) is a sequence of length at most one:   *)
(* None is <<>> and a value v is <<v>>.  A float is [num, scale], meaning  *)
(* num / 10^scale, with trailing zeros of the fraction removed, so that    *)
(* equal numbers are equal records.                                        *)
(***************************************************************************)
EXTENDS Integers, Sequences, FiniteSets, TLC

VARIABLES
  text,    \* the text the recognizer returns for the image (raw_text)
  pc,      \* where the operation under study stands
  ret,     \* what the function under study returned
  image,   \* what the file at image_path holds
  record,  \* the record a handler assembled
  db,      \* the receipts table: a set of rows <<id, revision>>
  csv,     \* the rows of the CSV file
  reqs,    \* the requests in flight, each with its position and its rows read
  bus,       \* BatteryMonitor.bus: not yet constructed, None, or an open bus
  threshold, \* the threshold argument of monitor_loop, in percent
  status,    \* the BatteryStatus last read in monitor_loop, None before any
  polls,     \* how many times monitor_loop has called monitor.status()
  shutdowns  \* how many times shutdown_system has run the shutdown command

(* The variables of the battery monitor process *)
monitorVars == <<bus, threshold, status, polls, shutdowns>>

vars == <<text, pc, ret, image, record, db, csv, reqs, monitorVars>>

(* The variables a function of ocr.py does not touch *)
serverVars == <<image, record, db, csv, reqs, monitorVars>>

----------------------------------------------------------------------------
(* Optional values *)

None == <<>>

Some(v) == <<v>>

(* SHUTDOWN_THRESHOLD of battery_monitor.py, in percent *)
SHUTDOWN_THRESHOLD == 10

----------------------------------------------------------------------------
(* Characters *)

Digits == {"0", "1", "2", "3", "4", "5", "6", "7", "8", "9"}

DigitSeq == <<"0", "1", "2", "3", "4", "5", "6", "7", "8", "9">>

DigitVal(c) == (CHOOSE k \in 1..10 : DigitSeq[k] = c) - 1

UpperSeq == <<"A", "B", "C", "D", "E", "F", "G", "H", "I", "J", "K", "L", "M",
              "N", "O", "P", "Q", "R", "S", "T", "U", "V", "W", "X", "Y", "Z">>

LowerSeq == <<"a", "b", "c", "d", "e", "f", "g", "h", "i", "j", "k", "l", "m",
              "n", "o", "p", "q", "r", "s", "t", "u", "v", "w", "x", "y", "z">>

Letters == {UpperSeq[k] : k \in 1..26} \cup {LowerSeq[k] : k \in 1..26}

Lower(c) ==
  IF \E k \in 1..26 : UpperSeq[k] = c
    THEN LowerSeq[CHOOSE k \in 1..26 : UpperSeq[k] = c]
    ELSE c

(* \s of the re module, restricted to the whitespace the model's texts use *)
Whitespace == {" ", "\n", "\t"}

(* [:\s] *)
LabelSepChars == Whitespace \cup {":"}

(* [\d.,] *)
NumberChars == Digits \cup {".", ","}

(* The index just after the longest run of characters of S that starts at i *)
RunEnd(s, i, S) ==
  CHOOSE j \in i..(Len(s) + 1) :
    /\ \A k \in i..(j - 1) : s[k] \in S
    /\ j = Len(s) + 1 \/ s[j] \notin S

(* lit occurs in s at index i, letter case ignored (re.IGNORECASE) *)
OccursAtNoCase(s, i, lit) ==
  /\ i + Len(lit) - 1 <= Len(s)
  /\ \A k \in 1..Len(lit) : Lower(s[i + k - 1]) = Lower(lit[k])

(* lit occurs in s at index i, exactly *)
OccursAt(s, i, lit) ==
  /\ i + Len(lit) - 1 <= Len(s)
  /\ \A k \in 1..Len(lit) : s[i + k - 1] = lit[k]

RECURSIVE Flatten(_)
Flatten(ss) == IF ss = <<>> THEN <<>> ELSE Head(ss) \o Flatten(Tail(ss))

RECURSIVE Without(_, _)
(* str.replace(c, "") *)
Without(s, c) ==
  IF s = <<>> THEN <<>>
  ELSE IF Head(s) = c THEN Without(Tail(s), c)
  ELSE <<Head(s)>> \o Without(Tail(s), c)

----------------------------------------------------------------------------
(* float(): a string of digits with at most one point and at least one digit *)

CanFloat(s) ==
  /\ \A k \in 1..Len(s) : s[k] \in Digits \cup {"."}
  /\ Cardinality({k \in 1..Len(s) : s[k] = "."}) <= 1
  /\ \E k \in 1..Len(s) : s[k] \in Digits

RECURSIVE DigitsToNat(_, _)
DigitsToNat(s, acc) ==
  IF s = <<>> THEN acc
  ELSE DigitsToNat(Tail(s), IF Head(s) = "." THEN acc ELSE 10 * acc + DigitVal(Head(s)))

RECURSIVE Normalize(_, _)
Normalize(n, d) ==
  IF d > 0 /\ n % 10 = 0 THEN Normalize(n \div 10, d - 1) ELSE [num |-> n, scale |-> d]

FloatOf(s) ==
  LET dots == {k \in 1..Len(s) : s[k] = "."}
      frac == IF dots = {} THEN 0 ELSE Len(s) - (CHOOSE k \in dots : TRUE)
  IN Normalize(DigitsToNat(s, 0), frac)

Zero == [num |-> 0, scale |-> 0]

----------------------------------------------------------------------------
(* extract_amounts *)

TotalLabels == << <<"t", "o", "t", "a", "l">>,
                  <<"a", "m", "o", "u", "n", "t", " ", "d", "u", "e">>,
                  <<"g", "r", "a", "n", "d", " ", "t", "o", "t", "a", "l">> >>

TaxLabels == << <<"t", "a", "x">>, <<"v", "a", "t">> >>

(* One attempt of (label1|label2|...)[:\s]*([\d.,]+) at index i: the labels   *)
(* are tried in order; after a label come the separators, then a non-empty    *)
(* run of number characters, which is group 2.                                *)
LabelMatchAt(s, i, labels) ==
  LET good == {k \in 1..Len(labels) :
                 /\ OccursAtNoCase(s, i, labels[k])
                 /\ LET a == RunEnd(s, i + Len(labels[k]), LabelSepChars)
                    IN RunEnd(s, a, NumberChars) > a}
  IN IF good = {} THEN [ok |-> FALSE, start |-> i, stop |-> i, group2 |-> <<>>]
     ELSE LET k == CHOOSE x \in good : \A y \in good : x <= y
              a == RunEnd(s, i + Len(labels[k]), LabelSepChars)
              b == RunEnd(s, a, NumberChars)
          IN [ok |-> TRUE, start |-> i, stop |-> b, group2 |-> SubSeq(s, a, b - 1)]

RECURSIVE LabelFinditer(_, _, _)
(* regex.finditer(text): the non-overlapping matches, left to right *)
LabelFinditer(s, i, labels) ==
  IF i > Len(s) THEN <<>>
  ELSE LET m == LabelMatchAt(s, i, labels)
       IN IF m.ok THEN <<m>> \o LabelFinditer(s, m.stop, labels)
          ELSE LabelFinditer(s, i + 1, labels)

RECURSIVE AmountLoop_first(_, _, _)
(* the loop with a break after the first parseable match *)
AmountLoop_first(ms, k, cur) ==
  IF k > Len(ms) THEN cur
  ELSE LET g == Without(ms[k].group2, ",")
       IN IF CanFloat(g) THEN Some(FloatOf(g)) ELSE AmountLoop_first(ms, k + 1, cur)

RECURSIVE AmountLoop(_, _, _)
(* for match in ...: try: x = float(group(2).replace(",", "")) except: continue *)
AmountLoop(ms, k, cur) ==
  IF k > Len(ms) THEN cur
  ELSE LET g == Without(ms[k].group2, ",")
       IN AmountLoop(ms, k + 1, IF CanFloat(g) THEN Some(FloatOf(g)) ELSE cur)

RECURSIVE FallbackFindall(_, _)
(* re.findall(r"[0-9]+\.[0-9]{2}", text), each as its value in hundredths *)
FallbackFindall(s, i) ==
  IF i > Len(s) THEN <<>>
  ELSE LET a == RunEnd(s, i, Digits)
       IN IF /\ a > i
             /\ a + 2 <= Len(s)
             /\ s[a] = "."
             /\ s[a + 1] \in Digits
             /\ s[a + 2] \in Digits
          THEN <<DigitsToNat(SubSeq(s, i, a + 2), 0)>> \o FallbackFindall(s, a + 3)
          ELSE FallbackFindall(s, i + 1)

SeqMax(ns) ==
  CHOOSE k \in {ns[j] : j \in 1..Len(ns)} : \A j \in 1..Len(ns) : ns[j] <= k

(* if not total: a labeled total of 0.0 falls back as well *)
NeedsFallback_falsy(total) == total = None \/ total = Some(Zero)

(* if total is None *)
NeedsFallback(total) == total = None

(* numbers = [...]; if numbers: total = max(numbers) *)
FallbackTotal(t) ==
  LET numbers == FallbackFindall(t, 1)
  IN IF numbers # <<>> THEN Some(Normalize(SeqMax(numbers), 2)) ELSE None

TotalOf(t) == AmountLoop(LabelFinditer(t, 1, TotalLabels), 1, None)

(* the tax given the fallback of the total *)
TaxOf_fallback(t) ==
  LET tax == AmountLoop(LabelFinditer(t, 1, TaxLabels), 1, None)
  IN IF tax = None THEN FallbackTotal(t) ELSE tax

TaxOf(t) == AmountLoop(LabelFinditer(t, 1, TaxLabels), 1, None)

extract_amounts(t) ==
  LET total == TotalOf(t)
      tax == TaxOf(t)
  IN [total_amount |-> IF NeedsFallback(total) THEN FallbackTotal(t) ELSE total,
      tax_amount |-> tax]

----------------------------------------------------------------------------
(* Texts: concatenations of at most n pieces of a set *)

TextsOf(pieces, n) ==
  UNION {{Flatten(f) : f \in [1..k -> pieces]} : k \in 0..n}

(* The battery monitor before monitor_loop is called: it is a process of    *)
(* its own, which the web application never starts.                         *)
NoMonitor ==
  /\ bus = "unconstructed"
  /\ threshold = SHUTDOWN_THRESHOLD
  /\ status = None
  /\ polls = 0
  /\ shutdowns = 0

(* The server as create_app leaves it: an empty table, its CSV mirror, no    *)
(* request in flight.                                                       *)
IdleServer ==
  /\ image = "none"
  /\ record = None
  /\ db = {}
  /\ csv = {}
  /\ reqs = <<>>
  /\ NoMonitor

----------------------------------------------------------------------------
(* extract_amounts on recognized texts                                      *)

MaxAmountPieces == 3

AmountPieces ==
  { <<"S", "u", "b", "t", "o", "t", "a", "l", ":", " ", "1", "0", ".", "0", "0">>,
    <<"T", "O", "T", "A", "L", " ", "1", ",", "0", "2", "5", ".", "5", "0">>,
    <<"a", "m", "o", "u", "n", "t", " ", "d", "u", "e", " ", "0">>,
    <<"G", "r", "a", "n", "d", " ", "T", "o", "t", "a", "l", ":", " ", "5", ".", "0", "0", ".">>,
    <<"T", "a", "x", " ", "0", ".", "8", "0">>,
    <<"v", "a", "t", ":", " ", "1", ".", "2", ".", "3">>,
    <<"4", "5", ".", "0", "0">>,
    <<" ">> }

InitAmounts ==
  /\ text \in TextsOf(AmountPieces, MaxAmountPieces)
  /\ pc = "ready"
  /\ ret = None
  /\ IdleServer

ExtractAmounts ==
  /\ pc = "ready"
  /\ ret' = extract_amounts(text)
  /\ pc' = "done"
  /\ UNCHANGED <<text, serverVars>>

NextAmounts == ExtractAmounts

SpecAmounts == InitAmounts /\ [][NextAmounts]_vars

----------------------------------------------------------------------------
(* Claims about extract_amounts (checked under SpecAmounts)                 *)

TotalMatches == LabelFinditer(text, 1, TotalLabels)

TaxMatches == LabelFinditer(text, 1, TaxLabels)

(* The matches whose captured number text float() accepts *)
Parseable(ms) == {k \in 1..Len(ms) : CanFloat(Without(ms[k].group2, ","))}

MatchValue(m) == FloatOf(Without(m.group2, ","))

SetMax(S) == CHOOSE x \in S : \A y \in S : y <= x

(* C3, as stated: with several labeled total matches, total_amount is the   *)
(* value of the last match in document order.                               *)
C3_LastMatchWins ==
  (pc = "done" /\ Len(TotalMatches) >= 2) =>
    /\ Len(TotalMatches) \in Parseable(TotalMatches)
    /\ ret.total_amount = Some(MatchValue(TotalMatches[Len(TotalMatches)]))

(* C3, amended: with several labeled total matches, total_amount is the     *)
(* value of the last match whose captured number text parses as a number;   *)
(* a later match that does not parse (1.2.3, or 5.00 with the sentence's    *)
(* full stop) is skipped.                                                   *)
C3_LastParseableMatchWins ==
  (pc = "done" /\ Len(TotalMatches) >= 2 /\ Parseable(TotalMatches) # {}) =>
    ret.total_amount = Some(MatchValue(TotalMatches[SetMax(Parseable(TotalMatches))]))

(* C3 witness: two parseable labeled totals, the first the larger, and the  *)
(* result is the second: neither the first nor the largest.                 *)
C3_Witness ==
  /\ pc = "done"
  /\ Len(TotalMatches) = 2
  /\ Parseable(TotalMatches) = {1, 2}
  /\ MatchValue(TotalMatches[1]) = [num |-> 10255, scale |-> 1]
  /\ MatchValue(TotalMatches[2]) = [num |-> 10, scale |-> 0]
  /\ ret.total_amount = Some([num |-> 10, scale |-> 0])

(* The value of the fallback as the claim words it: the largest of the      *)
(* numbers of the shape digits '.' two digits, None when there is none.     *)
IsFallbackMax(total) ==
  LET ns == FallbackFindall(text, 1)
  IN IF ns = <<>> THEN total = None
     ELSE \E j \in 1..Len(ns) :
            /\ total = Some(Normalize(ns[j], 2))
            /\ \A i \in 1..Len(ns) : ns[i] <= ns[j]

(* C4, as stated: the fallback is used if and only if the text has no       *)
(* labeled total match; with a labeled match the total comes from a labeled *)
(* match, without one it is the maximum number of the text or None.         *)
C4_FallbackIffNoMatch ==
  pc = "done" =>
    /\ TotalMatches # <<>> =>
         \E k \in Parseable(TotalMatches) :
           ret.total_amount = Some(MatchValue(TotalMatches[k]))
    /\ TotalMatches = <<>> => IsFallbackMax(ret.total_amount)

(* C4, amended: the fallback is used if and only if no labeled total match  *)
(* has a captured number text that parses: if one parses the total comes    *)
(* from a labeled match, otherwise (no labeled match, or only matches that  *)
(* do not parse) it is the maximum number of the text or None.              *)
C4_FallbackIffNoParseableMatch ==
  pc = "done" =>
    /\ Parseable(TotalMatches) # {} =>
         \E k \in Parseable(TotalMatches) :
           ret.total_amount = Some(MatchValue(TotalMatches[k]))
    /\ Parseable(TotalMatches) = {} => IsFallbackMax(ret.total_amount)

(* C4 witness: a labeled total of 0 beside the unlabeled number 45.00; the  *)
(* total is the labeled 0, not the larger unlabeled number.                 *)
C4_Witness ==
  /\ pc = "done"
  /\ Parseable(TotalMatches) # {}
  /\ FallbackFindall(text, 1) = <<4500>>
  /\ ret.total_amount = Some(Zero)

(* C5: tax_amount is the last parseable labeled tax/vat match and has no    *)
(* fallback: without a tax or vat label followed by a number it is None,    *)
(* whatever unlabeled numbers the text holds and whatever the total is.     *)
C5_TaxOnlyFromLabel ==
  pc = "done" =>
    /\ Parseable(TaxMatches) = {} => ret.tax_amount = None
    /\ Parseable(TaxMatches) # {} =>
         ret.tax_amount = Some(MatchValue(TaxMatches[SetMax(Parseable(TaxMatches))]))

(* C5 witness: no tax label, unlabeled numbers and a total, and no tax.     *)
C5_Witness ==
  /\ pc = "done"
  /\ TaxMatches = <<>>
  /\ FallbackFindall(text, 1) # <<>>
  /\ ret.total_amount # None
  /\ ret.tax_amount = None

----------------------------------------------------------------------------
(* extract_date *)

DateSeps == {"/", "-"}

AllDigits(s, i, n) ==
  /\ i + n - 1 <= Len(s)
  /\ \A k \in i..(i + n - 1) : s[k] \in Digits

(* \d{4}[/-]\d{2}[/-]\d{2} at index i: the index after the match, or 0 *)
YearFirstEnd(s, i) ==
  IF /\ i + 9 <= Len(s)
     /\ AllDigits(s, i, 4) /\ s[i + 4] \in DateSeps
     /\ AllDigits(s, i + 5, 2) /\ s[i + 7] \in DateSeps
     /\ AllDigits(s, i + 8, 2)
  THEN i + 10 ELSE 0

(* \d{2}[/-]\d{2}[/-]\d{4} at index i *)
DayFirstEnd(s, i) ==
  IF /\ i + 9 <= Len(s)
     /\ AllDigits(s, i, 2) /\ s[i + 2] \in DateSeps
     /\ AllDigits(s, i + 3, 2) /\ s[i + 5] \in DateSeps
     /\ AllDigits(s, i + 6, 4)
  THEN i + 10 ELSE 0

(* \d{1,2}\s+[A-Za-z]{3,9}\s+\d{4} at index i *)
MonthNameEnd(s, i) ==
  LET nd == IF AllDigits(s, i, 2) THEN 2 ELSE IF AllDigits(s, i, 1) THEN 1 ELSE 0
      w1 == RunEnd(s, i + nd, Whitespace)
      l == RunEnd(s, w1, Letters)
      w2 == RunEnd(s, l, Whitespace)
  IN IF /\ nd > 0
        /\ w1 > i + nd
        /\ l - w1 >= 3 /\ l - w1 <= 9
        /\ w2 > l
        /\ AllDigits(s, w2, 4)
     THEN w2 + 4 ELSE 0

(* The three alternatives of DATE_REGEX at index i, in their order *)
DateMatchEnd(s, i) ==
  IF YearFirstEnd(s, i) > 0 THEN YearFirstEnd(s, i)
  ELSE IF DayFirstEnd(s, i) > 0 THEN DayFirstEnd(s, i)
  ELSE MonthNameEnd(s, i)

(* DATE_REGEX.search(text): the leftmost match *)
DateSearch(s) ==
  LET starts == {i \in 1..Len(s) : DateMatchEnd(s, i) > 0}
  IN IF starts = {} THEN [ok |-> FALSE, start |-> 0, stop |-> 0]
     ELSE LET i == CHOOSE x \in starts : \A y \in starts : x <= y
          IN [ok |-> TRUE, start |-> i, stop |-> DateMatchEnd(s, i)]

(* The formats of the loop, each a sequence of directives (Y, m, d, B, b),  *)
(* literal characters, and " " for the white space of a format.             *)
DateFormats ==
  << <<"%Y", "-", "%m", "-", "%d">>,
     <<"%Y", "/", "%m", "/", "%d">>,
     <<"%d", "-", "%m", "-", "%Y">>,
     <<"%d", "/", "%m", "/", "%Y">>,
     <<"%d", " ", "%B", " ", "%Y">>,
     <<"%d", " ", "%b", " ", "%Y">> >>

MonthNames ==
  << <<"j", "a", "n", "u", "a", "r", "y">>,
     <<"f", "e", "b", "r", "u", "a", "r", "y">>,
     <<"m", "a", "r", "c", "h">>,
     <<"a", "p", "r", "i", "l">>,
     <<"m", "a", "y">>,
     <<"j", "u", "n", "e">>,
     <<"j", "u", "l", "y">>,
     <<"a", "u", "g", "u", "s", "t">>,
     <<"s", "e", "p", "t", "e", "m", "b", "e", "r">>,
     <<"o", "c", "t", "o", "b", "e", "r">>,
     <<"n", "o", "v", "e", "m", "b", "e", "r">>,
     <<"d", "e", "c", "e", "m", "b", "e", "r">> >>

MonthAbbr(m) == SubSeq(MonthNames[m], 1, 3)

IsLeap(y) == y % 4 = 0 /\ (y % 100 # 0 \/ y % 400 = 0)

DaysInMonth(y, m) ==
  IF m = 2 THEN (IF IsLeap(y) THEN 29 ELSE 28)
  ELSE IF m \in {4, 6, 9, 11} THEN 30 ELSE 31

(* The ways directive dir of strptime reads raw at index i: pairs of the    *)
(* value read and the index after it.                                       *)
DirectiveReads(raw, i, dir) ==
  LET num(n) == DigitsToNat(SubSeq(raw, i, i + n - 1), 0)
      upTo(hi) == {<<num(n), i + n>> : n \in {k \in 1..2 : AllDigits(raw, i, k)}}
  IN CASE dir = "%Y" ->
            IF AllDigits(raw, i, 4) THEN {<<num(4), i + 4>>} ELSE {}
       [] dir = "%m" ->
            {r \in upTo(12) : r[1] >= 1 /\ r[1] <= 12}
       [] dir = "%d" ->
            {r \in upTo(31) : r[1] >= 1 /\ r[1] <= 31}
              \cup (IF i + 1 <= Len(raw) /\ raw[i] = " " /\ raw[i + 1] \in Digits \ {"0"}
                    THEN {<<DigitVal(raw[i + 1]), i + 2>>} ELSE {})
       [] dir = "%B" ->
            {<<m, i + Len(MonthNames[m])>> :
               m \in {k \in 1..12 : OccursAtNoCase(raw, i, MonthNames[k])}}
       [] dir = "%b" ->
            {<<m, i + 3>> : m \in {k \in 1..12 : OccursAtNoCase(raw, i, MonthAbbr(k))}}

RECURSIVE StrptimeFrom(_, _, _, _, _)
(* The (year, month, day) triples with which raw from index i matches the   *)
(* format from item j on, the whole of raw consumed.                        *)
StrptimeFrom(raw, i, fmt, j, acc) ==
  IF j > Len(fmt) THEN (IF i = Len(raw) + 1 THEN {acc} ELSE {})
  ELSE LET item == fmt[j]
       IN IF item = " "
            THEN (IF RunEnd(raw, i, Whitespace) > i
                  THEN StrptimeFrom(raw, RunEnd(raw, i, Whitespace), fmt, j + 1, acc)
                  ELSE {})
          ELSE IF item \in {"-", "/"}
            THEN (IF i <= Len(raw) /\ raw[i] = item
                  THEN StrptimeFrom(raw, i + 1, fmt, j + 1, acc)
                  ELSE {})
          ELSE UNION {StrptimeFrom(raw, r[2], fmt, j + 1,
                        [acc EXCEPT ![IF item = "%Y" THEN 1
                                      ELSE IF item = "%d" THEN 3 ELSE 2] = r[1]]) :
                      r \in DirectiveReads(raw, i, item)}

(* datetime.strptime(raw, fmt).date(): None stands for ValueError *)
Strptime(raw, fmt) ==
  LET reads == {d \in StrptimeFrom(raw, 1, fmt, 1, <<0, 0, 0>>) :
                  d[1] >= 1 /\ d[3] <= DaysInMonth(d[1], d[2])}
  IN IF reads = {} THEN None ELSE Some(CHOOSE d \in reads : TRUE)

RECURSIVE NatToDigits(_, _)
(* n in decimal, zero-padded to at least w digits *)
NatToDigits(n, w) ==
  IF w <= 1 /\ n < 10 THEN <<DigitSeq[n + 1]>>
  ELSE NatToDigits(n \div 10, w - 1) \o <<DigitSeq[(n % 10) + 1]>>

(* date.isoformat() *)
IsoFormat(d) ==
  NatToDigits(d[1], 4) \o <<"-">> \o NatToDigits(d[2], 2) \o <<"-">> \o NatToDigits(d[3], 2)

RECURSIVE FormatLoop(_, _, _)
(* for fmt in [...]: try: return strptime(raw, fmt) except ValueError: continue *)
FormatLoop(raw, fmts, k) ==
  IF k > Len(fmts) THEN None
  ELSE LET d == Strptime(raw, fmts[k])
       IN IF d # None THEN d ELSE FormatLoop(raw, fmts, k + 1)

(* the match dropped when no format parses it *)
Unparsed_discard(raw) == None

(* return raw, after the loop *)
Unparsed(raw) == Some(raw)

extract_date(t) ==
  LET m == DateSearch(t)
  IN IF m.ok
       THEN LET raw == SubSeq(t, m.start, m.stop - 1)
                d == FormatLoop(raw, DateFormats, 1)
            IN IF d # None THEN Some(IsoFormat(d[1])) ELSE Unparsed(raw)
       ELSE None

----------------------------------------------------------------------------
(* extract_date on recognized texts                                         *)

MaxDatePieces == 2

DatePieces ==
  { <<"2", "0", "2", "4", "-", "0", "5", "-", "0", "1">>,
    <<"2", "0", "2", "4", "/", "0", "5", "/", "1", "3">>,
    <<"2", "0", "2", "4", "-", "0", "5", "/", "0", "1">>,
    <<"2", "0", "2", "3", "-", "0", "2", "-", "2", "9">>,
    <<"0", "1", "/", "0", "5", "/", "2", "0", "2", "4">>,
    <<"1", "3", "-", "0", "5", "-", "2", "0", "2", "4">>,
    <<"0", "5", "/", "1", "3", "/", "2", "0", "2", "4">>,
    <<"1", " ", "M", "a", "y", " ", "2", "0", "2", "4">>,
    <<"1", "2", " ", "s", "e", "p", "t", " ", "2", "0", "2", "4">>,
    <<"3", " ", "F", "e", "b", "r", "u", "a", "r", "y", " ", "2", "0", "2", "4">>,
    <<"7", " ", "D", "E", "C", " ", "2", "0", "2", "4">>,
    <<" ">>,
    <<"x">>,
    <<"9">> }

InitDate ==
  /\ text \in TextsOf(DatePieces, MaxDatePieces)
  /\ pc = "ready"
  /\ ret = None
  /\ IdleServer

ExtractDate ==
  /\ pc = "ready"
  /\ ret' = extract_date(text)
  /\ pc' = "done"
  /\ UNCHANGED <<text, serverVars>>

NextDate == ExtractDate

SpecDate == InitDate /\ [][NextDate]_vars

----------------------------------------------------------------------------
(* Claims about extract_date (checked under SpecDate)                       *)

DateStarts == {i \in 1..Len(text) : DateMatchEnd(text, i) > 0}

FirstDateText ==
  LET i == CHOOSE x \in DateStarts : \A y \in DateStarts : x <= y
  IN SubSeq(text, i, DateMatchEnd(text, i) - 1)

ParsingFormats(raw) == {k \in 1..Len(DateFormats) : Strptime(raw, DateFormats[k]) # None}

(* C6: extract_date looks at the first substring that matches a date         *)
(* pattern only: None without a match, the date as YYYY-MM-DD under the      *)
(* first format of the list that parses the match (01/05/2024 is day-first:  *)
(* 2024-05-01), and the matched substring itself when no format parses.      *)
C6_DateFromFirstMatch ==
  pc = "done" =>
    /\ DateStarts = {} => ret = None
    /\ DateStarts # {} =>
         LET ok == ParsingFormats(FirstDateText)
         IN /\ ok = {} => ret = Some(FirstDateText)
            /\ ok # {} =>
                 LET k == CHOOSE x \in ok : \A y \in ok : x <= y
                 IN ret = Some(IsoFormat(Strptime(FirstDateText, DateFormats[k])[1]))
    /\ text = <<"0", "1", "/", "0", "5", "/", "2", "0", "2", "4">> =>
         ret = Some(<<"2", "0", "2", "4", "-", "0", "5", "-", "0", "1">>)
    /\ text = <<"2", "0", "2", "4", "-", "0", "5", "-", "0", "1">> =>
         ret = Some(<<"2", "0", "2", "4", "-", "0", "5", "-", "0", "1">>)

(* C6 witness: the first match, 05/13/2024, parses under no format and a     *)
(* later match, 2024-05-01, would: the result is the first match verbatim.   *)
C6_Witness ==
  /\ pc = "done"
  /\ Cardinality(DateStarts) = 2
  /\ FirstDateText = <<"0", "5", "/", "1", "3", "/", "2", "0", "2", "4">>
  /\ ParsingFormats(FirstDateText) = {}
  /\ ParsingFormats(SubSeq(text, 11, 20)) # {}
  /\ ret = Some(FirstDateText)

----------------------------------------------------------------------------
(* extract_vendor *)

RECURSIVE SplitLines(_, _)
(* str.splitlines(): cur is the line being read *)
SplitLines(s, cur) ==
  IF s = <<>> THEN (IF cur = <<>> THEN <<>> ELSE <<cur>>)
  ELSE IF Head(s) = "\n" THEN <<cur>> \o SplitLines(Tail(s), <<>>)
  ELSE SplitLines(Tail(s), Append(cur, Head(s)))

RECURSIVE LStrip(_)
LStrip(s) == IF s # <<>> /\ Head(s) \in Whitespace THEN LStrip(Tail(s)) ELSE s

RECURSIVE RStrip(_)
RStrip(s) ==
  IF s # <<>> /\ s[Len(s)] \in Whitespace THEN RStrip(SubSeq(s, 1, Len(s) - 1)) ELSE s

(* str.strip() *)
Strip(s) == RStrip(LStrip(s))

IsNonBlank(line) == Strip(line) # <<>>

(* lines = [line for line in raw_text.splitlines() if line.strip()] *)
NonBlankLines(t) == SelectSeq(SplitLines(t, <<>>), IsNonBlank)

VendorWindow == 5

VendorMinLen == 2

(* for line in lines: every line is tried *)
FirstLines_all(lines) == lines

(* lines[:5] *)
FirstLines(lines) ==
  SubSeq(lines, 1, IF Len(lines) < VendorWindow THEN Len(lines) ELSE VendorWindow)

(* len(line.strip()) > 2 and not re.search(r"\d", line) *)
LooksLikeVendor(line) ==
  /\ Len(Strip(line)) > VendorMinLen
  /\ \A k \in 1..Len(line) : line[k] \notin Digits

RECURSIVE VendorLoop(_, _)
(* for line in lines[:5]: if ...: return line.strip() *)
VendorLoop(ls, k) ==
  IF k > Len(ls) THEN None
  ELSE IF LooksLikeVendor(ls[k]) THEN Some(Strip(ls[k]))
  ELSE VendorLoop(ls, k + 1)

(* the vendor with the handlers' default for a text without lines *)
extract_vendor_default(lines) ==
  IF lines = <<>> THEN Some(<<"U", "n", "k", "n", "o", "w", "n">>)
  ELSE LET found == VendorLoop(FirstLines(lines), 1)
       IN IF found # None THEN found ELSE Some(Strip(lines[1]))

extract_vendor(lines) ==
  IF lines = <<>> THEN None
  ELSE LET found == VendorLoop(FirstLines(lines), 1)
       IN IF found # None THEN found ELSE Some(Strip(lines[1]))

----------------------------------------------------------------------------
(* extract_vendor on recognized texts                                       *)

MaxVendorPieces == 6

VendorPieces ==
  { <<"\n">>,
    <<"a", "b", "\n">>,
    <<" ", "1", "2", " ", "\n">>,
    <<" ", "J", "o", "e", " ", "\n">> }

InitVendor ==
  /\ text \in TextsOf(VendorPieces, MaxVendorPieces)
  /\ pc = "ready"
  /\ ret = None
  /\ IdleServer

ExtractVendor ==
  /\ pc = "ready"
  /\ ret' = extract_vendor(NonBlankLines(text))
  /\ pc' = "done"
  /\ UNCHANGED <<text, serverVars>>

NextVendor == ExtractVendor

SpecVendor == InitVendor /\ [][NextVendor]_vars

----------------------------------------------------------------------------
(* Claims about the vendor (checked under SpecVendor)                       *)

TextLines == NonBlankLines(text)

(* The lines among the first five non-empty ones that qualify *)
Qualifying ==
  {k \in 1..Len(TextLines) :
     /\ k <= 5
     /\ Len(Strip(TextLines[k])) > 2
     /\ \A j \in 1..Len(TextLines[k]) : TextLines[k][j] \notin Digits}

(* C7: the vendor is the first of the first five non-empty lines whose       *)
(* trimmed length exceeds two and that holds no digit, else the very first   *)
(* non-empty line (even if numeric), and None only without a non-empty       *)
(* line.  The line is reported with its surrounding white space trimmed.     *)
C7_VendorChoice ==
  pc = "done" =>
    /\ (ret = None) <=> (TextLines = <<>>)
    /\ Qualifying # {} =>
         ret = Some(Strip(TextLines[CHOOSE k \in Qualifying : \A j \in Qualifying : k <= j]))
    /\ (TextLines # <<>> /\ Qualifying = {}) => ret = Some(Strip(TextLines[1]))

(* C7 witness: six non-empty lines, none of the first five qualifies, the    *)
(* sixth would: the vendor is the first line, numeric as it is.              *)
C7_Witness ==
  /\ pc = "done"
  /\ Len(TextLines) = 6
  /\ Qualifying = {}
  /\ LooksLikeVendor(TextLines[6])
  /\ ret = Some(<<"1", "2">>)

----------------------------------------------------------------------------
(* The currency of process_image *)

CurrencySymbols == {"$", "€", "£"}

CurrencyCodes == << <<"U", "S", "D">>, <<"E", "U", "R">>, <<"G", "B", "P">> >>

(* ([$€£]|USD|EUR|GBP) at index i: group 1, or <<>> without a match *)
CurrencyMatchAt(s, i) ==
  IF s[i] \in CurrencySymbols THEN <<s[i]>>
  ELSE LET codes == {k \in 1..3 : OccursAt(s, i, CurrencyCodes[k])}
       IN IF codes = {} THEN <<>>
          ELSE CurrencyCodes[CHOOSE k \in codes : \A j \in codes : k <= j]

(* group 1 of the rightmost match *)
CurrencySearch_last(s) ==
  LET starts == {i \in 1..Len(s) : CurrencyMatchAt(s, i) # <<>>}
  IN IF starts = {} THEN None
     ELSE Some(CurrencyMatchAt(s, CHOOSE i \in starts : \A j \in starts : i >= j))

(* CURRENCY_REGEX.search(raw_text): group 1 of the leftmost match *)
CurrencySearch(s) ==
  LET starts == {i \in 1..Len(s) : CurrencyMatchAt(s, i) # <<>>}
  IN IF starts = {} THEN None
     ELSE Some(CurrencyMatchAt(s, CHOOSE i \in starts : \A j \in starts : i <= j))

(* {"$": "USD", "€": "EUR", "£": "GBP"}.get(symbol, symbol) *)
CurrencyCode(symbol) ==
  IF symbol = <<"$">> THEN <<"U", "S", "D">>
  ELSE IF symbol = <<"€">> THEN <<"E", "U", "R">>
  ELSE IF symbol = <<"£">> THEN <<"G", "B", "P">>
  ELSE symbol

CurrencyOf(t) ==
  LET currency_match == CurrencySearch(t)
  IN IF currency_match # None THEN Some(CurrencyCode(currency_match[1])) ELSE None

----------------------------------------------------------------------------
(* The currency on recognized texts                                         *)

MaxCurrencyPieces == 3

CurrencyPieces ==
  { <<"$">>,
    <<"€">>,
    <<"£">>,
    <<"U", "S", "D">>,
    <<"E", "U", "R">>,
    <<"G", "B", "P">>,
    <<"u", "s", "d">>,
    <<"U", "S">>,
    <<"x">> }

InitCurrency ==
  /\ text \in TextsOf(CurrencyPieces, MaxCurrencyPieces)
  /\ pc = "ready"
  /\ ret = None
  /\ IdleServer

ExtractCurrency ==
  /\ pc = "ready"
  /\ ret' = CurrencyOf(text)
  /\ pc' = "done"
  /\ UNCHANGED <<text, serverVars>>

NextCurrency == ExtractCurrency

SpecCurrency == InitCurrency /\ [][NextCurrency]_vars

----------------------------------------------------------------------------
(* Claims about the currency (checked under SpecCurrency)                   *)

(* Each symbol or code with the ISO code the claim gives it *)
CurrencyTable ==
  { << <<"$">>, <<"U", "S", "D">> >>,
    << <<"€">>, <<"E", "U", "R">> >>,
    << <<"£">>, <<"G", "B", "P">> >>,
    << <<"U", "S", "D">>, <<"U", "S", "D">> >>,
    << <<"E", "U", "R">>, <<"E", "U", "R">> >>,
    << <<"G", "B", "P">>, <<"G", "B", "P">> >> }

OccursHere(i, e) ==
  /\ i + Len(e[1]) - 1 <= Len(text)
  /\ SubSeq(text, i, i + Len(e[1]) - 1) = e[1]

(* The occurrences in the text: <<index, <<symbol or code, ISO code>> >> *)
CurrencyOccurrences ==
  {p \in (1..Len(text)) \X CurrencyTable : OccursHere(p[1], p[2])}

(* C8: the currency is decided by the first occurrence in the text of a      *)
(* symbol ($, €, £) or a code (USD, EUR, GBP): a symbol gives its ISO code,  *)
(* a code itself; later occurrences change nothing; no occurrence gives None.*)
C8_FirstCurrencyWins ==
  pc = "done" =>
    /\ CurrencyOccurrences = {} => ret = None
    /\ CurrencyOccurrences # {} =>
         \E p \in CurrencyOccurrences :
           /\ \A q \in CurrencyOccurrences : p[1] <= q[1]
           /\ ret = Some(p[2][2])

(* C8 witness: the text starts with the pound sign and holds a dollar sign   *)
(* and the code EUR later: the currency is GBP.                              *)
C8_Witness ==
  /\ pc = "done"
  /\ text = <<"£", "$", "E", "U", "R">>
  /\ ret = Some(<<"G", "B", "P">>)

----------------------------------------------------------------------------
(* process_image, and the scan and upload handlers around it                *)

(* What a file at image_path can hold: a photo OpenCV decodes; a picture    *)
(* only PIL opens (OpenCV's imread gives None); bytes that are no image;    *)
(* nothing at all, the placeholder capture_receipt leaves without a camera. *)
ImageKinds == {"photo", "pil_only", "garbage", "empty"}

(* cv2.imread(image_path) is not None *)
Cv2Reads(kind) == kind = "photo"

(* Image.open(image_path) returns: it raises UnidentifiedImageError on a    *)
(* file in which PIL finds no image.                                        *)
PilOpens(kind) == kind \in {"photo", "pil_only"}

(* preprocess_image: "image" when it returns one, "raise" when it raises *)
preprocess_image(kind) ==
  IF ~Cv2Reads(kind)
    THEN (IF PilOpens(kind) THEN "image" ELSE "raise")
    ELSE "image"

(* str(uuid.uuid4()) *)
Uuid == <<"u", "u", "i", "d">>

(* The dict process_image returns for an image in which the recognizer     *)
(* reads raw_text.                                                          *)
ParsedFields(image_path, raw_text) ==
  LET lines == NonBlankLines(raw_text)
      amounts == extract_amounts(raw_text)
      date == extract_date(raw_text)
      vendor == extract_vendor(lines)
      currency == CurrencyOf(raw_text)
  IN [id |-> Some(Uuid),
      date |-> date,
      vendor |-> vendor,
      total_amount |-> amounts.total_amount,
      tax_amount |-> amounts.tax_amount,
      currency |-> currency,
      payment_method |-> None,
      category |-> None,
      notes |-> None,
      image_path |-> Some(image_path),
      raw_text |-> Some(raw_text)]

Raised == [raised |-> TRUE]

(* process_image(image_path): the dict, or Raised when preprocess_image     *)
(* raises.                                                                  *)
process_image(kind, image_path, raw_text) ==
  IF preprocess_image(kind) = "raise" THEN Raised
  ELSE ParsedFields(image_path, raw_text)

RECEIPT_FIELDS ==
  {"id", "date", "vendor", "total_amount", "tax_amount", "currency",
   "payment_method", "category", "notes", "image_path", "raw_text",
   "created_at", "updated_at"}

(* x or default, on strings: None and "" are false *)
OrStr(x, default) == IF x = None \/ x = Some(<<>>) THEN Some(default) ELSE x

(* parsed.get(key), without the default *)
OrFloat_nodefault(x, default) == x

(* x or default, on floats: None and 0.0 are false *)
OrFloat(x, default) == IF x = None \/ x = Some(Zero) THEN Some(default) ELSE x

(* datetime.now().date().isoformat() *)
Today == <<"2", "0", "2", "6", "-", "0", "1", "-", "0", "2">>

(* timestamp_now() *)
Now == <<"n", "o", "w">>

Unknown == <<"U", "n", "k", "n", "o", "w", "n">>

Uncategorized == <<"U", "n", "c", "a", "t", "e", "g", "o", "r", "i", "z", "e", "d">>

USD == <<"U", "S", "D">>

(* record = {...} of scan and of upload *)
AssembleRecord(parsed, image_path) ==
  [id |-> OrStr(parsed.id, Uuid),
   date |-> OrStr(parsed.date, Today),
   vendor |-> OrStr(parsed.vendor, Unknown),
   total_amount |-> OrFloat(parsed.total_amount, Zero),
   tax_amount |-> OrFloat(parsed.tax_amount, Zero),
   currency |-> OrStr(parsed.currency, USD),
   payment_method |-> OrStr(parsed.payment_method, Unknown),
   category |-> OrStr(parsed.category, Uncategorized),
   notes |-> OrStr(parsed.notes, <<>>),
   image_path |-> Some(image_path),
   raw_text |-> OrStr(parsed.raw_text, <<>>),
   created_at |-> Some(Now),
   updated_at |-> Some(Now)]

(* f"{uuid.uuid4()}.jpg" under IMAGE_DIR *)
ScanPath == <<"s", "c", "a", "n", ".", "j", "p", "g">>

(* f"{uuid.uuid4()}_{file.filename}" under IMAGE_DIR *)
UploadPath == <<"u", "p", "l", "o", "a", "d">>

MaxPipelinePieces == 2

PipelinePieces ==
  { <<"T", "o", "t", "a", "l", ":", " ", "1", "0", ".", "0", "0">>,
    <<"a", "m", "o", "u", "n", "t", " ", "d", "u", "e", " ", "0">>,
    <<"T", "a", "x", " ", "0", ".", "8", "0">>,
    <<"0", "1", "/", "0", "5", "/", "2", "0", "2", "4">>,
    <<"£">>,
    <<"J", "o", "e", "'", "s", "\n">>,
    <<"7">> }

(* The rest of a handler once the file is in place: process_image, the      *)
(* record, insert_receipt and export_to_csv; an exception of process_image  *)
(* leaves the handler before any of them.                                   *)
ProcessAndStore(kind, image_path, raw_text) ==
  /\ image' = kind
  /\ ret' = process_image(kind, image_path, raw_text)
  /\ IF ret' = Raised
       THEN /\ pc' = "error"
            /\ UNCHANGED <<text, record, db, csv>>
       ELSE /\ text' = raw_text
            /\ record' = Some(AssembleRecord(ret', image_path))
            /\ db' = db \cup {<<1, 0>>}
            /\ csv' = db'
            /\ pc' = "done"
  /\ UNCHANGED <<reqs, monitorVars>>

(* capture_receipt: libcamera-still writes a photo, or, when the command is *)
(* missing or fails, an empty placeholder is created.                       *)
capture_receipt(camera) == IF camera = "ok" THEN "photo" ELSE "empty"

(* POST /scan *)
Scan ==
  /\ pc = "idle"
  /\ \E camera \in {"ok", "unavailable"} :
       \E raw_text \in TextsOf(PipelinePieces, MaxPipelinePieces) :
         ProcessAndStore(capture_receipt(camera), ScanPath, raw_text)

(* POST /upload with a file *)
Upload ==
  /\ pc = "idle"
  /\ \E kind \in ImageKinds :
       \E raw_text \in TextsOf(PipelinePieces, MaxPipelinePieces) :
         ProcessAndStore(kind, UploadPath, raw_text)

(* POST /upload without a file: flash and redirect *)
UploadNothing ==
  /\ pc = "idle"
  /\ pc' = "rejected"
  /\ UNCHANGED <<text, ret, serverVars>>

Init ==
  /\ text = <<>>
  /\ pc = "idle"
  /\ ret = None
  /\ IdleServer

Next == Scan \/ Upload \/ UploadNothing

Spec == Init /\ [][Next]_vars

----------------------------------------------------------------------------
(* Claims about process_image and the handlers (checked under Spec)         *)

(* C1: for every file handed to process_image, a file that is no image and  *)
(* the empty placeholder of capture_receipt included, process_image returns *)
(* a record and does not raise.                                             *)
C1_NeverRaises == image # "none" => (ret # Raised /\ pc # "error")

(* The documented defaults of the fields an extraction may leave None *)
DocumentedDefault ==
  [vendor |-> <<"U", "n", "k", "n", "o", "w", "n">>,
   currency |-> <<"U", "S", "D">>,
   total_amount |-> [num |-> 0, scale |-> 0],
   tax_amount |-> [num |-> 0, scale |-> 0],
   category |-> <<"U", "n", "c", "a", "t", "e", "g", "o", "r", "i", "z", "e", "d">>,
   payment_method |-> <<"U", "n", "k", "n", "o", "w", "n">>]

(* C2: the record assembled from a result of process_image has all 13       *)
(* receipt fields, none of them None: an extraction left None has its        *)
(* documented default, an extraction recovered keeps its value.              *)
C2_RecordComplete ==
  pc = "done" =>
    /\ record # None
    /\ DOMAIN record[1] = RECEIPT_FIELDS
    /\ Cardinality(DOMAIN record[1]) = 13
    /\ \A f \in DOMAIN record[1] : record[1][f] # None
    /\ \A f \in DOMAIN DocumentedDefault :
         ret[f] = None => record[1][f] = Some(DocumentedDefault[f])
    /\ \A f \in {"date", "vendor", "total_amount", "tax_amount", "currency"} :
         ret[f] # None => record[1][f] = ret[f]

(* C2 witness: nothing was extracted but a labeled total of 0: the record    *)
(* has the total 0 that was read and the defaults elsewhere.                 *)
C2_Witness ==
  /\ pc = "done"
  /\ ret.total_amount = Some([num |-> 0, scale |-> 0])
  /\ ret.tax_amount = None /\ ret.date = None /\ ret.currency = None
  /\ record[1].total_amount = Some([num |-> 0, scale |-> 0])
  /\ record[1].tax_amount = Some([num |-> 0, scale |-> 0])
  /\ record[1].currency = Some(<<"U", "S", "D">>)
  /\ record[1].category = Some(DocumentedDefault.category)

(* C9: process_image fabricates nothing: a field without evidence in the     *)
(* text is None (all five for an empty text), payment_method, category and   *)
(* notes are always None, and the defaults appear in the record only.        *)
C9_NoFabrication ==
  (pc = "done" /\ ret # Raised) =>
    /\ ret.payment_method = None /\ ret.category = None /\ ret.notes = None
    /\ text = <<>> =>
         /\ ret.total_amount = None /\ ret.tax_amount = None
         /\ ret.date = None /\ ret.vendor = None /\ ret.currency = None
    /\ (TotalMatches = <<>> /\ FallbackFindall(text, 1) = <<>>) => ret.total_amount = None
    /\ TaxMatches = <<>> => ret.tax_amount = None
    /\ DateStarts = {} => ret.date = None
    /\ (\A k \in 1..Len(text) : text[k] \in Whitespace) => ret.vendor = None
    /\ CurrencyOccurrences = {} => ret.currency = None

(* C9 witness: a photo in which nothing is read: every extracted field is    *)
(* None and the record holds the defaults.                                   *)
C9_Witness ==
  /\ pc = "done"
  /\ image = "photo"
  /\ text = <<>>
  /\ ret.vendor = None /\ ret.total_amount = None /\ ret.currency = None
  /\ record[1].vendor = Some(<<"U", "n", "k", "n", "o", "w", "n">>)

----------------------------------------------------------------------------
(* Concurrent requests and the CSV mirror                                   *)
(*                                                                          *)
(* A request is served by its own thread; the table and the CSV file are    *)
(* what the threads share, and no handler takes a lock.  Each statement     *)
(* that reads or writes the table or the file is one step.  A row of the    *)
(* table is <<id, revision>>; the receipt a request inserts has the         *)
(* request's number as its id.                                              *)

MaxRequests == 3

Requests == 1..MaxRequests

NoRequest == [kind |-> "none", at |-> "idle", target |-> 0, rows |-> {}]

(* insert_receipt(db_path, record) *)
insert_receipt(table, id) == {r \in table : r[1] # id} \cup {<<id, 0>>}

(* update_receipt(db_path, receipt_id, updates) *)
update_receipt(table, id) ==
  {r \in table : r[1] # id} \cup {<<id, r[2] + 1>> : r \in {x \in table : x[1] = id}}

(* delete_receipt(db_path, receipt_id) *)
delete_receipt(table, id) == {r \in table : r[1] # id}

(* get_receipt(db_path, receipt_id) is not None *)
HasReceipt(table, id) == \E r \in table : r[1] = id

(* scan, up to and including insert_receipt *)
ScanInsert(p) ==
  /\ reqs[p].at = "idle"
  /\ db' = insert_receipt(db, p)
  /\ reqs' = [reqs EXCEPT ![p] = [kind |-> "scan", at |-> "wrote", target |-> p, rows |-> {}]]
  /\ UNCHANGED <<text, pc, ret, image, record, csv, monitorVars>>

(* upload, up to and including insert_receipt *)
UploadInsert(p) ==
  /\ reqs[p].at = "idle"
  /\ db' = insert_receipt(db, p)
  /\ reqs' = [reqs EXCEPT ![p] = [kind |-> "upload", at |-> "wrote", target |-> p, rows |-> {}]]
  /\ UNCHANGED <<text, pc, ret, image, record, csv, monitorVars>>

(* receipt_detail POST, up to and including update_receipt *)
EditUpdate(p, id) ==
  /\ reqs[p].at = "idle"
  /\ db' = update_receipt(db, id)
  /\ reqs' = [reqs EXCEPT ![p] = [kind |-> "edit", at |-> "wrote", target |-> id, rows |-> {}]]
  /\ UNCHANGED <<text, pc, ret, image, record, csv, monitorVars>>

(* remove_receipt: get_receipt, and the redirect when there is no receipt *)
DeleteLookup(p, id) ==
  /\ reqs[p].at = "idle"
  /\ reqs' = [reqs EXCEPT ![p] =
                [kind |-> "delete",
                 at |-> IF HasReceipt(db, id) THEN "found" ELSE "done",
                 target |-> id, rows |-> {}]]
  /\ UNCHANGED <<text, pc, ret, image, record, db, csv, monitorVars>>

(* remove_receipt: delete_receipt *)
DeleteRow(p) ==
  /\ reqs[p].at = "found"
  /\ db' = delete_receipt(db, reqs[p].target)
  /\ reqs' = [reqs EXCEPT ![p].at = "wrote"]
  /\ UNCHANGED <<text, pc, ret, image, record, csv, monitorVars>>

(* export_to_csv: rows = conn.execute("SELECT * FROM receipts ...").fetchall() *)
ExportRead(p) ==
  /\ reqs[p].at = "wrote"
  /\ reqs' = [reqs EXCEPT ![p].at = "read", ![p].rows = db]
  /\ UNCHANGED <<text, pc, ret, image, record, db, csv, monitorVars>>

(* export_to_csv: the file is opened for writing and the rows read are written *)
ExportWrite(p) ==
  /\ reqs[p].at = "read"
  /\ csv' = reqs[p].rows
  /\ reqs' = [reqs EXCEPT ![p].at = "done", ![p].rows = {}]
  /\ UNCHANGED <<text, pc, ret, image, record, db, monitorVars>>

InitCsv ==
  /\ text = <<>>
  /\ pc = "serving"
  /\ ret = None
  /\ image = "none"
  /\ record = None
  /\ db = {}
  /\ csv = {}
  /\ reqs = [p \in Requests |-> NoRequest]
  /\ NoMonitor

NextCsv ==
  \E p \in Requests :
    \/ ScanInsert(p)
    \/ UploadInsert(p)
    \/ \E id \in Requests : EditUpdate(p, id)
    \/ \E id \in Requests : DeleteLookup(p, id)
    \/ DeleteRow(p)
    \/ ExportRead(p)
    \/ ExportWrite(p)

SpecCsv == InitCsv /\ [][NextCsv]_vars

(* Every request that was made has run to completion *)
Quiescent == \A p \in Requests : reqs[p].at \in {"idle", "done"}

(* C10: once the scan, upload, edit and delete requests made have all run   *)
(* to completion, in whatever order their table writes and their CSV        *)
(* exports interleaved, the CSV file holds exactly the rows of the table.   *)
C10_CsvMirrorsTable == (pc = "serving" /\ Quiescent) => csv = db

----------------------------------------------------------------------------
(* app/battery_monitor.py: the low-battery shutdown loop.                   *)
(*                                                                          *)
(* A voltage is an integer number of millivolts and a current an integer    *)
(* number of milliamperes (the values round(x, 3) yields); a percentage is  *)
(* an integer number of tenths of a percent (the values round(x, 1)         *)
(* yields).  The threshold is in percent, as monitor_loop takes it.         *)

(* What bus.read_word_data gives: None when it raises, or a 16-bit word *)
RawWords == {0, 6600, 6783, 6784, 6960, 8400, 65535}

Reads == {None} \cup {Some(w) : w \in RawWords}

(* The voltages, in millivolts, that estimate_percentage takes as empty and *)
(* as full                                                                  *)
EmptyMillivolts == 3300

FullMillivolts == 4200

(* (raw >> 3) * 4e-3 volts, rounded to the millivolt *)
read_voltage(b, word) ==
  IF b # "open" \/ word = None
    THEN None
    ELSE Some((word[1] \div 8) * 4)

(* raw * 0.001 amperes, rounded to the milliampere *)
read_current(b, word) ==
  IF b # "open" \/ word = None
    THEN None
    ELSE Some(word[1])

(* round(n / d) for d > 0, where n / d is never half-way between integers *)
RoundDiv(n, d) == (2 * n + d) \div (2 * d)

Clamp(lo, hi, x) == IF x < lo THEN lo ELSE IF x > hi THEN hi ELSE x

(* max(0, min(100, round((voltage - 3.3) / (4.2 - 3.3) * 100, 1))), in      *)
(* tenths of a percent                                                      *)
estimate_percentage(voltage) ==
  IF voltage = None
    THEN None
    ELSE Some(Clamp(0, 1000,
                    RoundDiv((voltage[1] - EmptyMillivolts) * 1000,
                             FullMillivolts - EmptyMillivolts)))

BatteryStatus(voltage, current, percentage, charging) ==
  [voltage |-> voltage, current |-> current,
   percentage |-> percentage, charging |-> charging]

(* BatteryMonitor.status on a monitor whose bus is b, the two reads giving  *)
(* vword and cword                                                          *)
MonitorStatus(b, vword, cword) ==
  LET voltage == read_voltage(b, vword)
      current == read_current(b, cword)
  IN  BatteryStatus(voltage, current, estimate_percentage(voltage),
                    current # None /\ current[1] < 0)

(* The condition of monitor_loop with the test for None left out, None      *)
(* counting as an empty battery                                             *)
LowBattery_none(st, th) ==
  \/ st.percentage = None
  \/ st.percentage[1] <= 10 * th

(* status.percentage is not None and status.percentage <= threshold *)
LowBattery(st, th) ==
  /\ st.percentage # None
  /\ st.percentage[1] <= 10 * th

MaxPolls == 3

(* The thresholds monitor_loop is called with: its default and two others *)
Thresholds == {0, SHUTDOWN_THRESHOLD, 20}

InitMonitor ==
  /\ text = <<>>
  /\ pc = "start"
  /\ ret = None
  /\ image = "none"
  /\ record = None
  /\ db = {}
  /\ csv = {}
  /\ reqs = <<>>
  /\ bus = "unconstructed"
  /\ threshold \in Thresholds
  /\ status = None
  /\ polls = 0
  /\ shutdowns = 0

(* BatteryMonitor() and BatteryLogger(): the bus is None without the smbus  *)
(* module, SMBus(bus_id) otherwise, which raises when the bus cannot be     *)
(* opened                                                                   *)
Construct ==
  /\ pc = "start"
  /\ \E outcome \in {"none", "open", "raised"} :
       IF outcome = "raised"
         THEN /\ pc' = "raised"
              /\ UNCHANGED bus
         ELSE /\ pc' = "polling"
              /\ bus' = outcome
  /\ UNCHANGED <<text, ret, image, record, db, csv, reqs,
                 threshold, status, polls, shutdowns>>

(* One pass of the loop up to time.sleep: read the status, log it, and on a *)
(* low battery run the shutdown command and leave the loop                  *)
Poll ==
  /\ pc = "polling"
  /\ polls < MaxPolls
  /\ \E vword \in Reads, cword \in Reads :
       status' = Some(MonitorStatus(bus, vword, cword))
  /\ polls' = polls + 1
  /\ IF LowBattery(status'[1], threshold)
       THEN /\ shutdowns' = shutdowns + 1
            /\ pc' = "ended"
       ELSE /\ pc' = "sleeping"
            /\ UNCHANGED shutdowns
  /\ UNCHANGED <<text, ret, image, record, db, csv, reqs, bus, threshold>>

(* time.sleep(interval) returns *)
Wake ==
  /\ pc = "sleeping"
  /\ pc' = "polling"
  /\ UNCHANGED <<text, ret, serverVars>>

NextMonitor == Construct \/ Poll \/ Wake

SpecMonitor == InitMonitor /\ [][NextMonitor]_vars /\ WF_vars(Wake)

(* The reading just taken is low: it has a percentage, at or below the      *)
(* threshold                                                                *)
ReadLow ==
  /\ status # None
  /\ status[1].percentage # None
  /\ status[1].percentage[1] <= 10 * threshold

(* C11: in monitor_loop the shutdown command is issued at most once, only   *)
(* in the pass whose status reading has a percentage that is not None and   *)
(* is at or below the threshold, and the loop ends with it; a pass whose    *)
(* reading has percentage None or above the threshold issues no shutdown    *)
(* and goes to sleep, from which the loop polls again; the loop ends in no  *)
(* other way than by the shutdown.                                          *)
C11_ShutdownOnlyOnLowReading ==
  /\ [][shutdowns' # shutdowns =>
          /\ shutdowns = 0
          /\ shutdowns' = 1
          /\ polls' = polls + 1
          /\ ReadLow'
          /\ pc' = "ended"]_vars
  /\ [][(polls' # polls /\ ~ReadLow') =>
          /\ shutdowns' = shutdowns
          /\ pc' = "sleeping"]_vars
  /\ [](pc = "ended" => (shutdowns = 1 /\ ReadLow))
  /\ [](pc \in {"polling", "sleeping"} => shutdowns = 0)
  /\ [][pc = "ended" => UNCHANGED vars]_vars
  /\ (pc = "sleeping" ~> pc = "polling")

(* The loop shut the system down on its third reading or later, a reading   *)
(* exactly at the threshold, after readings without a percentage or above   *)
(* the threshold                                                            *)
C11_Witness ==
  /\ pc = "ended"
  /\ shutdowns = 1
  /\ polls >= 3
  /\ status[1].percentage = Some(10 * threshold)
  /\ threshold > 0

====
